---- MODULE Spec2Model ----
(***************************************************************************)
(* A model of colorize.js: the COLORS style table, the THEMES registry     *)
(* shared by the whole process, and ColorizeLogger instances (the module   *)
(* singleton `logger` and a second instance).                              *)
(*                                                                         *)
(* Strings the library concatenates are sequences of characters; the       *)
(* escape character \x1b is the one-element string "ESC".  A JavaScript    *)
(* value is a record of its type tag and its payload (the string, the      *)
(* literal, or the identity of the object), so typeof, truthiness and      *)
(* property lookup (own properties first, then Object.prototype) are       *)
(* computed as the engine computes them.  Nothing in the library reads     *)
(* the console back, so of the console the model keeps what the call just  *)
(* made has written to it.                                                 *)
(***************************************************************************)
EXTENDS Naturals, Sequences, FiniteSets, TLC

VARIABLES
  THEMES,   \* the registry: theme name -> value stored under it
  loggers,  \* the instances: this.theme and this.options.enabled of each
  last      \* the call just made: its outcome and what it wrote to the console

vars == <<THEMES, loggers, last>>

-----------------------------------------------------------------------------
(* JavaScript values *)

Undefined == [t |-> "undefined", s |-> ""]
Null == [t |-> "null", s |-> ""]
Str(x) == [t |-> "string", s |-> x]
Num(x) == [t |-> "number", s |-> x]
Bool(b) == [t |-> "boolean", s |-> IF b THEN "true" ELSE "false"]
\* An object, an array, a function: the payload is its identity.
Obj(id) == [t |-> "object", s |-> id]
Arr(id) == [t |-> "array", s |-> id]
Fn(id) == [t |-> "function", s |-> id]

\* typeof v
TypeOf(v) ==
  CASE v.t \in {"object", "null", "array"} -> "object"
    [] OTHER -> v.t

\* Truthiness (the `x &&`, `x ||`, `!x`, `!!x` tests of the code).
Truthy(v) ==
  CASE v.t \in {"object", "array", "function"} -> TRUE
    [] v.t = "string" -> v.s # ""
    [] v.t = "number" -> v.s \notin {"0", "NaN"}
    [] v.t = "boolean" -> v.s = "true"
    [] OTHER -> FALSE

\* Properties every plain object literal inherits from Object.prototype.
ObjectPrototype == {"constructor", "toString", "valueOf", "hasOwnProperty"}

\* String(f) of an inherited built-in function, as `result += f` appends it
\* (written in three pieces); the inherited constructor is the function Object.
NativeSource(k) ==
  <<"function ", IF k = "constructor" THEN "Object" ELSE k, "() { [native code] }">>

Categories == {"success", "error", "warning", "info", "debug", "prompt"}

\* The value of `theme.<category>` when the property is missing: undefined.
NoStyleSpec == [def |-> FALSE, color |-> Undefined, bgColor |-> Undefined, style |-> Undefined]

\* A StyleSpec object literal { color, bgColor, style }.
StyleSpec(c, b, s) == [def |-> TRUE, color |-> c, bgColor |-> b, style |-> s]
Plain(c, s) == StyleSpec(Str(c), Undefined, s)
Full(c, b, s) == StyleSpec(Str(c), Str(b), s)

-----------------------------------------------------------------------------
(* COLORS: the style table *)

ESC == "ESC"

SGR(digits) == <<ESC, "[">> \o digits \o <<"m">>

COLORS ==
  [ reset |-> SGR(<<"0">>), bright |-> SGR(<<"1">>), dim |-> SGR(<<"2">>),
    underscore |-> SGR(<<"4">>), blink |-> SGR(<<"5">>), reverse |-> SGR(<<"7">>),
    hidden |-> SGR(<<"8">>),
    black |-> SGR(<<"3", "0">>), red |-> SGR(<<"3", "1">>), green |-> SGR(<<"3", "2">>),
    yellow |-> SGR(<<"3", "3">>), blue |-> SGR(<<"3", "4">>), magenta |-> SGR(<<"3", "5">>),
    cyan |-> SGR(<<"3", "6">>), white |-> SGR(<<"3", "7">>),
    bgBlack |-> SGR(<<"4", "0">>), bgRed |-> SGR(<<"4", "1">>), bgGreen |-> SGR(<<"4", "2">>),
    bgYellow |-> SGR(<<"4", "3">>), bgBlue |-> SGR(<<"4", "4">>), bgMagenta |-> SGR(<<"4", "5">>),
    bgCyan |-> SGR(<<"4", "6">>), bgWhite |-> SGR(<<"4", "7">>) ]

RESET == COLORS["reset"]

\* `if (x && COLORS[x]) result += COLORS[x]`: what argument x adds to result.
\* COLORS[x] finds own properties and, failing that, Object.prototype's.
Escape(x) ==
  IF ~Truthy(x) THEN <<>>
  ELSE IF x.s \in DOMAIN COLORS THEN COLORS[x.s]
  ELSE IF x.s \in ObjectPrototype THEN NativeSource(x.s)
  ELSE <<>>

-----------------------------------------------------------------------------
(* THEMES: the built-in themes, and the theme objects a client writes *)

DefaultCategories ==
  [success |-> Plain("green", Null), error |-> Plain("red", Null),
   warning |-> Plain("yellow", Null), info |-> Plain("cyan", Null),
   debug |-> Plain("magenta", Null), prompt |-> Plain("white", Str("bright"))]

DarkCategories ==
  [success |-> Plain("green", Str("bright")), error |-> Plain("red", Str("bright")),
   warning |-> Plain("yellow", Str("bright")), info |-> Plain("blue", Str("bright")),
   debug |-> Plain("magenta", Str("dim")), prompt |-> Plain("white", Str("underscore"))]

LightCategories ==
  [success |-> Plain("green", Str("dim")), error |-> Plain("red", Str("dim")),
   warning |-> Plain("yellow", Str("dim")), info |-> Plain("blue", Str("dim")),
   debug |-> Plain("magenta", Str("dim")), prompt |-> Plain("black", Str("bright"))]

MinimalCategories ==
  [success |-> Plain("green", Null), error |-> Plain("red", Null),
   warning |-> Plain("yellow", Null), info |-> Plain("white", Null),
   debug |-> Plain("white", Str("dim")), prompt |-> Plain("white", Null)]

VibrantCategories ==
  [success |-> Full("green", "bgBlack", Str("bright")),
   error |-> Full("white", "bgRed", Str("bright")),
   warning |-> Full("black", "bgYellow", Null),
   info |-> Full("white", "bgBlue", Str("bright")),
   debug |-> Full("white", "bgMagenta", Null),
   prompt |-> Full("black", "bgCyan", Str("bright"))]

\* The custom theme of the README.
MyThemeCategories ==
  [success |-> Full("green", "bgBlack", Str("bright")),
   error |-> Full("white", "bgRed", Str("bright")),
   warning |-> Full("black", "bgYellow", Null),
   info |-> Plain("blue", Str("underscore")),
   debug |-> Plain("magenta", Str("dim")),
   prompt |-> Plain("cyan", Str("bright"))]

\* A theme object that leaves categories out: { success: { color: 'green' } }.
PartialCategories ==
  [c \in Categories |->
     IF c = "success" THEN StyleSpec(Str("green"), Undefined, Undefined) ELSE NoStyleSpec]

\* The theme objects in memory, by identity.
ThemeObjects ==
  [DefaultTheme |-> DefaultCategories, DarkTheme |-> DarkCategories,
   LightTheme |-> LightCategories, MinimalTheme |-> MinimalCategories,
   VibrantTheme |-> VibrantCategories, MyTheme |-> MyThemeCategories,
   PartialTheme |-> PartialCategories]

DefaultTheme == Obj("DefaultTheme")
DarkTheme == Obj("DarkTheme")
LightTheme == Obj("LightTheme")
MinimalTheme == Obj("MinimalTheme")
VibrantTheme == Obj("VibrantTheme")
MyTheme == Obj("MyTheme")
PartialTheme == Obj("PartialTheme")

\* The THEMES object literal.
BuiltinThemes ==
  [default |-> DefaultTheme, dark |-> DarkTheme, light |-> LightTheme,
   minimal |-> MinimalTheme, vibrant |-> VibrantTheme]

\* v.<cat> for a category name: the StyleSpec, or undefined when v has no such
\* property (an object that leaves it out, an array, a function, a string).
Property(v, cat) ==
  IF v.t = "object" /\ v.s \in DOMAIN ThemeObjects THEN ThemeObjects[v.s][cat]
  ELSE NoStyleSpec

-----------------------------------------------------------------------------
(* State *)

\* The instances: the module singleton and one the client constructs.
Inst == {"logger", "other"}

\* A call: the method, the receiver and the arguments.  text is the text argument;
\* a1, a2, a3 are the others in the order the method takes them (undefined when
\* the method has fewer).
Call(op, i, text, a1, a2, a3) ==
  [op |-> op, self |-> i, text |-> text, a1 |-> a1, a2 |-> a2, a3 |-> a3]

\* A call and its outcome: whether it threw, the instance it returned for
\* chaining ("none" if it returned a string or threw), the string it returned
\* (format, formatPrompt) and the entries it wrote to the console, in order.
Outcome(call, threw, chain, ret, out) ==
  [op |-> call.op, self |-> call.self, text |-> call.text,
   a1 |-> call.a1, a2 |-> call.a2, a3 |-> call.a3,
   threw |-> threw, chain |-> chain, ret |-> ret, out |-> out]

\* return this, after writing out
Returned(call, out) == Outcome(call, FALSE, call.self, <<>>, out)
\* return str
ReturnedString(call, str) == Outcome(call, FALSE, "none", str, <<>>)
\* an uncaught TypeError
Threw(call) == Outcome(call, TRUE, "none", <<>>, <<>>)

\* THEMES[name]: an own property, else what Object.prototype provides, else undefined.
ThemesGet(name) ==
  IF name \in DOMAIN THEMES THEN THEMES[name]
  ELSE IF name \in ObjectPrototype THEN Fn(name)
  ELSE Undefined

\* THEMES[name] = value
ThemesPut(name, value) ==
  [n \in DOMAIN THEMES \cup {name} |-> IF n = name THEN value ELSE THEMES[n]]

\* The value setTheme(theme, customTheme) assigns to this.theme.
ResolveTheme(theme, customTheme) ==
  IF theme.t = "string"
  THEN IF theme.s = "custom" /\ Truthy(customTheme) THEN customTheme
       ELSE IF Truthy(ThemesGet(theme.s)) THEN ThemesGet(theme.s)
       ELSE THEMES["default"]
  ELSE IF TypeOf(theme) = "object" /\ theme.t # "null" THEN theme
  ELSE THEMES["default"]

\* createTheme as it would be if a name already registered were kept.
RegisterTheme_KeepExisting(name, themeConfig) ==
  IF name.t = "string" /\ TypeOf(themeConfig) = "object" /\ name.s \notin DOMAIN THEMES
  THEN ThemesPut(name.s, themeConfig)
  ELSE THEMES

\* What createTheme(name, themeConfig) leaves in THEMES.
RegisterTheme(name, themeConfig) ==
  IF name.t = "string" /\ TypeOf(themeConfig) = "object"
  THEN ThemesPut(name.s, themeConfig)
  ELSE THEMES

\* this._colorize(text, color, bgColor, style)
Colorize(i, text, color, bgColor, style) ==
  IF ~Truthy(loggers[i].enabled) THEN text
  ELSE Escape(style) \o Escape(bgColor) \o Escape(color) \o text \o RESET

\* What console.log(line) and console.table(data) write.
ConsoleLog(line) == [kind |-> "log", line |-> line]
ConsoleTable(data) == [kind |-> "table", line |-> <<data.t, data.s>>]

\* `const { color, bgColor, style } = this.theme.<cat>` throws a TypeError when
\* this.theme is null or undefined, and when this.theme.<cat> is undefined.
CanDestructure(i, cat) ==
  /\ loggers[i].theme.t \notin {"null", "undefined"}
  /\ Property(loggers[i].theme, cat).def

\* The line success/error/warning/info/debug hand to log(), and formatPrompt to
\* format(): the category's color and bgColor, and `customStyle || style`.
ThemedLine(i, cat, text, customStyle) ==
  LET spec == Property(loggers[i].theme, cat)
  IN Colorize(i, text, spec.color, spec.bgColor,
              IF Truthy(customStyle) THEN customStyle ELSE spec.style)

-----------------------------------------------------------------------------
(* Operations *)

Init ==
  /\ THEMES = BuiltinThemes
  \* const logger = new ColorizeLogger()
  /\ loggers = [i \in {"logger"} |-> [theme |-> DefaultTheme, enabled |-> Bool(TRUE)]]
  /\ last = Returned(Call("constructor", "logger", <<>>, Undefined, Undefined, Undefined), <<>>)

\* new ColorizeLogger({ theme, customTheme, enabled })
New(i, theme, customTheme, enabled) ==
  /\ i \notin DOMAIN loggers
  /\ LET th == IF Truthy(theme) THEN theme ELSE Str("default")
         en == IF enabled.t # "undefined" THEN enabled ELSE Bool(TRUE)
         ct == IF Truthy(customTheme) THEN customTheme ELSE Null
     IN loggers' = [j \in DOMAIN loggers \cup {i} |->
                      IF j = i THEN [theme |-> ResolveTheme(th, ct), enabled |-> en]
                      ELSE loggers[j]]
  /\ last' = Returned(Call("constructor", i, <<>>, theme, customTheme, enabled), <<>>)
  /\ UNCHANGED THEMES

\* setTheme as it would be if 'custom' with a theme object also registered it.
SetTheme_RegistersCustom(i, theme, customTheme) ==
  /\ i \in DOMAIN loggers
  /\ loggers' = [loggers EXCEPT ![i].theme = ResolveTheme(theme, customTheme)]
  /\ last' = Returned(Call("setTheme", i, <<>>, theme, customTheme, Undefined), <<>>)
  /\ THEMES' = IF theme = Str("custom") /\ Truthy(customTheme)
               THEN ThemesPut("custom", customTheme) ELSE THEMES

SetTheme(i, theme, customTheme) ==
  /\ i \in DOMAIN loggers
  /\ loggers' = [loggers EXCEPT ![i].theme = ResolveTheme(theme, customTheme)]
  /\ last' = Returned(Call("setTheme", i, <<>>, theme, customTheme, Undefined), <<>>)
  /\ UNCHANGED THEMES

\* createTheme as it would be if instances looked their theme up by name on
\* every use: an instance whose theme is the entry replaced gets the new one.
CreateTheme_LiveLookup(i, name, themeConfig) ==
  /\ i \in DOMAIN loggers
  /\ THEMES' = RegisterTheme(name, themeConfig)
  /\ last' = Returned(Call("createTheme", i, <<>>, name, themeConfig, Undefined), <<>>)
  /\ loggers' = [j \in DOMAIN loggers |->
                   IF THEMES' # THEMES /\ loggers[j].theme = ThemesGet(name.s)
                   THEN [loggers[j] EXCEPT !.theme = themeConfig]
                   ELSE loggers[j]]

CreateTheme(i, name, themeConfig) ==
  /\ i \in DOMAIN loggers
  /\ THEMES' = RegisterTheme(name, themeConfig)
  /\ last' = Returned(Call("createTheme", i, <<>>, name, themeConfig, Undefined), <<>>)
  /\ UNCHANGED loggers

\* this.options.enabled = !!enabled
EnabledFlag(enabled) == Bool(Truthy(enabled))

\* setEnabled as it would be if the options object were shared by the instances.
SetEnabled_Shared(i, enabled) ==
  /\ i \in DOMAIN loggers
  /\ loggers' = [j \in DOMAIN loggers |-> [loggers[j] EXCEPT !.enabled = EnabledFlag(enabled)]]
  /\ last' = Returned(Call("setEnabled", i, <<>>, enabled, Undefined, Undefined), <<>>)
  /\ UNCHANGED THEMES

SetEnabled(i, enabled) ==
  /\ i \in DOMAIN loggers
  /\ loggers' = [loggers EXCEPT ![i].enabled = EnabledFlag(enabled)]
  /\ last' = Returned(Call("setEnabled", i, <<>>, enabled, Undefined, Undefined), <<>>)
  /\ UNCHANGED THEMES

Log(i, text, color, bgColor, style) ==
  /\ i \in DOMAIN loggers
  /\ last' = Returned(Call("log", i, text, color, bgColor, style),
                      <<ConsoleLog(Colorize(i, text, color, bgColor, style))>>)
  /\ UNCHANGED <<THEMES, loggers>>

\* The body shared by success, error, warning, info and debug.
Semantic(i, cat, text, customStyle) ==
  /\ i \in DOMAIN loggers
  /\ LET call == Call(cat, i, text, customStyle, Undefined, Undefined)
     IN last' = IF CanDestructure(i, cat)
                THEN Returned(call, <<ConsoleLog(ThemedLine(i, cat, text, customStyle))>>)
                ELSE Threw(call)
  /\ UNCHANGED <<THEMES, loggers>>

Success(i, text, customStyle) == Semantic(i, "success", text, customStyle)
Error(i, text, customStyle) == Semantic(i, "error", text, customStyle)
Warning(i, text, customStyle) == Semantic(i, "warning", text, customStyle)
Info(i, text, customStyle) == Semantic(i, "info", text, customStyle)
Debug(i, text, customStyle) == Semantic(i, "debug", text, customStyle)

\* 'Invalid data for table display', written as one piece.
InvalidTableMessage == <<"Invalid data for table display">>

\* table(data, title); a title is written as one piece.
Table(i, data, title) ==
  /\ i \in DOMAIN loggers
  /\ LET call == Call("table", i, <<>>, data, title, Undefined)
     IN last' =
          IF ~Truthy(data) \/ TypeOf(data) # "object"
          THEN IF CanDestructure(i, "error")
               THEN Returned(call, <<ConsoleLog(ThemedLine(i, "error", InvalidTableMessage, Undefined))>>)
               ELSE Threw(call)
          ELSE IF ~Truthy(title)
               THEN Returned(call, <<ConsoleTable(data)>>)
               ELSE IF CanDestructure(i, "info")
                    THEN Returned(call, <<ConsoleLog(ThemedLine(i, "info", <<title.s>>, Undefined)),
                                          ConsoleTable(data)>>)
                    ELSE Threw(call)
  /\ UNCHANGED <<THEMES, loggers>>

Format(i, text, color, bgColor, style) ==
  /\ i \in DOMAIN loggers
  /\ last' = ReturnedString(Call("format", i, text, color, bgColor, style),
                            Colorize(i, text, color, bgColor, style))
  /\ UNCHANGED <<THEMES, loggers>>

FormatPrompt(i, text) ==
  /\ i \in DOMAIN loggers
  /\ LET call == Call("formatPrompt", i, text, Undefined, Undefined, Undefined)
     IN last' = IF CanDestructure(i, "prompt")
                THEN ReturnedString(call, ThemedLine(i, "prompt", text, Undefined))
                ELSE Threw(call)
  /\ UNCHANGED <<THEMES, loggers>>

-----------------------------------------------------------------------------
(* The whole interface, on the singleton and a second instance *)

Texts == {<<"a">>, <<"O", "K">>}

\* (theme, customTheme) argument pairs of setTheme and of the constructor.
ThemeArgs ==
  {<<Str("awesome"), Undefined>>, <<Str("nonexistent"), Undefined>>,
   <<Str("custom"), MyTheme>>, <<PartialTheme, Undefined>>}

CreateNames == {Str("awesome"), Str("default")}
CreateValues == {MyTheme, VibrantTheme, Undefined}

EnabledArgs == {Bool(TRUE), Bool(FALSE), Num("0")}

StyleOverrides == {Undefined, Str("bright")}

\* (color, bgColor, style) argument triples of log and format.
StyleArgs ==
  {<<Str("red"), Undefined, Undefined>>, <<Str("white"), Str("bgBlue"), Str("bright")>>}

TableData == {Null, Str("abc"), Obj("data")}
Titles == {Undefined, Str(""), Str("T")}

Next ==
  \/ \E i \in Inst, a \in ThemeArgs, e \in {Undefined, Bool(FALSE)} : New(i, a[1], a[2], e)
  \/ \E i \in Inst, a \in ThemeArgs : SetTheme(i, a[1], a[2])
  \/ \E i \in Inst, n \in CreateNames, v \in CreateValues : CreateTheme(i, n, v)
  \/ \E i \in Inst, e \in EnabledArgs : SetEnabled(i, e)
  \/ \E i \in Inst, t \in Texts, a \in StyleArgs : Log(i, t, a[1], a[2], a[3])
  \/ \E i \in Inst, t \in Texts, s \in StyleOverrides : Success(i, t, s)
  \/ \E i \in Inst, t \in Texts, s \in StyleOverrides : Error(i, t, s)
  \/ \E i \in Inst, t \in Texts, s \in StyleOverrides : Warning(i, t, s)
  \/ \E i \in Inst, t \in Texts, s \in StyleOverrides : Info(i, t, s)
  \/ \E i \in Inst, t \in Texts, s \in StyleOverrides : Debug(i, t, s)
  \/ \E i \in Inst, d \in TableData, t \in Titles : Table(i, d, t)
  \/ \E i \in Inst, t \in Texts, a \in StyleArgs : Format(i, t, a[1], a[2], a[3])
  \/ \E i \in Inst, t \in Texts : FormatPrompt(i, t)

Spec == Init /\ [][Next]_vars

-----------------------------------------------------------------------------
(* Theme resolution and registration on the singleton, over every kind of  *)
(* name and value                                                          *)

BuiltinNames == {"default", "dark", "light", "minimal", "vibrant"}

AllThemeArgs ==
  {<<Str(n), Undefined>> : n \in BuiltinNames \cup {"awesome", "custom", "nonexistent", "constructor"}}
    \cup {<<Str("custom"), MyTheme>>, <<MyTheme, Undefined>>, <<PartialTheme, Undefined>>,
          <<Arr("[]"), Undefined>>, <<Null, Undefined>>, <<Undefined, Undefined>>,
          <<Num("5"), Undefined>>}

AllCreateNames == {Str("awesome"), Str("default"), Str("dark"), Num("5")}
AllCreateValues == {MyTheme, Null, Arr("[]"), Str("dark"), Num("5"), Undefined}

NextThemes ==
  \/ \E a \in AllThemeArgs : SetTheme("logger", a[1], a[2])
  \/ \E n \in AllCreateNames, v \in AllCreateValues : CreateTheme("logger", n, v)
  \/ \E s \in {Undefined, Null, Str(""), Str("dim")} : Success("logger", <<"O", "K">>, s)
  \/ FormatPrompt("logger", <<"O", "K">>)

SpecThemes == Init /\ [][NextThemes]_vars

-----------------------------------------------------------------------------
(* format and log on the singleton, over every kind of style argument *)

\* The longest text handed to format and log.
MaxLen == 2

Alphabet == {"a", "b"}

TextsUpTo(n) == UNION {[1..k -> Alphabet] : k \in 0..n}

ColorValues == {Undefined, Str("red"), Str("nosuchcolor"), Str("constructor"), Num("5")}
BgValues == {Undefined, Null, Str("bgBlue"), Str("toString")}
StyleValues == {Undefined, Str(""), Str("bright"), Str("reset"), Str("valueOf")}

NextFormat ==
  \/ \E e \in EnabledArgs : SetEnabled("logger", e)
  \/ \E t \in TextsUpTo(MaxLen), c \in ColorValues, b \in BgValues, s \in StyleValues :
       Format("logger", t, c, b, s)
  \/ \E t \in TextsUpTo(MaxLen), a \in StyleArgs : Log("logger", t, a[1], a[2], a[3])

SpecFormat == Init /\ [][NextFormat]_vars

-----------------------------------------------------------------------------
(* The 'custom' name: setTheme('custom', object), setTheme('custom') and   *)
(* createTheme('custom', ...) on the singleton and a second instance       *)

CustomThemeArgs ==
  {<<Str("custom"), MyTheme>>, <<Str("custom"), PartialTheme>>,
   <<Str("custom"), Undefined>>, <<Str("custom"), Null>>, <<Str("dark"), Undefined>>}

CustomCreateNames == {Str("custom"), Str("default")}
CustomCreateValues == {VibrantTheme, MyTheme}

NextCustom ==
  \/ \E i \in Inst, a \in CustomThemeArgs : New(i, a[1], a[2], Undefined)
  \/ \E i \in Inst, a \in CustomThemeArgs : SetTheme(i, a[1], a[2])
  \/ \E i \in Inst, n \in CustomCreateNames, v \in CustomCreateValues : CreateTheme(i, n, v)
  \/ \E i \in Inst : Info(i, <<"O", "K">>, Undefined)
  \/ \E i \in Inst : FormatPrompt(i, <<"O", "K">>)

SpecCustom == Init /\ [][NextCustom]_vars

-----------------------------------------------------------------------------
(* What the claims say, written from their words *)

SemanticOps == {"success", "error", "warning", "info", "debug"}

\* The receiver of the last call has styling switched off.
LastDisabled == ~Truthy(loggers[last.self].enabled)

\* The escape sequence of a code of the fixed style table; nothing for any
\* other argument.
EscapeOfCode(x) ==
  IF x.t = "string" /\ x.s \in DOMAIN COLORS THEN COLORS[x.s] ELSE <<>>

\* style, then bgColor, then color, then the text, then RESET.
Styled(text, color, bgColor, style) ==
  EscapeOfCode(style) \o EscapeOfCode(bgColor) \o EscapeOfCode(color) \o text \o RESET

\* x is a contiguous piece of y.
Contains(y, x) ==
  \E k \in 0..(Len(y) - Len(x)) : \A n \in 1..Len(x) : y[k + n] = x[n]

EndsWith(y, x) ==
  /\ Len(y) >= Len(x)
  /\ \A n \in 1..Len(x) : y[Len(y) - Len(x) + n] = x[n]

\* v is a theme object that defines a StyleSpec for all six categories.
Complete(v) == \A c \in Categories : Property(v, c).def

\* The line a semantic operation of category cat writes for a theme object
\* whose categories are cats, on instance i.
LineFor(i, cats, cat, text, override) ==
  IF ~Truthy(loggers[i].enabled) THEN text
  ELSE Styled(text, cats[cat].color, cats[cat].bgColor,
              IF Truthy(override) THEN override ELSE cats[cat].style)

\* C1: on an instance whose enabled flag is false, format and formatPrompt
\* return exactly the text and each semantic operation writes exactly the text
\* (one line, no escape sequence, no reset), whatever setTheme and createTheme
\* calls came before.
C1_DisabledIsIdentity ==
  LastDisabled =>
    /\ last.op \in {"format", "formatPrompt"} => ~last.threw /\ last.ret = last.text
    /\ last.op \in SemanticOps => ~last.threw /\ last.out = <<ConsoleLog(last.text)>>

\* C2: on an enabled instance format returns the escape of style, of bgColor
\* and of color, the text and RESET, in this order, where an argument that is
\* absent or is no code of the style table adds nothing; so the result ends
\* with RESET and contains the text.
C2_FormatComposes ==
  (last.op = "format" /\ ~LastDisabled) =>
    /\ ~last.threw
    /\ last.ret = Styled(last.text, last.a1, last.a2, last.a3)
    /\ EndsWith(last.ret, RESET)
    /\ Contains(last.ret, last.text)

\* C3: no call of the interface throws, whatever calls came before.
C3_NeverThrows == ~last.threw

\* C4: the active theme of every instance defines all six categories.
C4_ActiveThemeComplete ==
  \A i \in DOMAIN loggers : Complete(loggers[i].theme)

\* C5: setTheme(name) with a built-in name activates a theme that defines all
\* six categories, and with a name that is not in the registry it activates
\* what setTheme('default') activates, the built-in default theme.
C5_ResolveNeverFails ==
  (last.op = "setTheme" /\ last.a1.t = "string" /\ ~Truthy(last.a2)) =>
    /\ last.a1.s \in BuiltinNames => Complete(loggers[last.self].theme)
    /\ last.a1.s \notin DOMAIN THEMES =>
         /\ loggers[last.self].theme = ResolveTheme(Str("default"), Null)
         /\ loggers[last.self].theme = DefaultTheme

\* The values C6 lists as no theme mapping object.
NotAMapping(v) == v.t \in {"string", "number", "undefined", "null", "array"}

\* C6: createTheme(name, value) with a string, a number, undefined, null or an
\* array as value leaves the registry as it was.
C6_MalformedRegistrationIgnored ==
  [][(last'.op = "createTheme" /\ NotAMapping(last'.a2)) => THEMES' = THEMES]_vars

C8_OneLinePerCall ==
  /\ last.op \in SemanticOps \cup {"log"} =>
       /\ Len(last.out) = 1 /\ last.out[1].kind = "log"
       /\ last.chain = last.self
  /\ last.op \in {"setTheme", "createTheme", "setEnabled"} =>
       last.out = <<>> /\ last.chain = last.self

\* C9: table(data, title) with data that is no non-null structured record writes
\* one line, the message in the active theme's error style, and nothing else; with
\* valid data it writes the title through info (if a title is given) and then the
\* table; it never throws and returns the instance.
C9_TableGuard ==
  last.op = "table" =>
    /\ ~last.threw /\ last.chain = last.self
    /\ IF last.a1.t \notin {"object", "array"}
       THEN /\ Len(last.out) = 1
            /\ last.out[1].kind = "log"
            /\ Contains(last.out[1].line, InvalidTableMessage)
       ELSE IF Truthy(last.a2)
            THEN /\ Len(last.out) = 2
                 /\ last.out[1].kind = "log" /\ Contains(last.out[1].line, <<last.a2.s>>)
                 /\ last.out[2] = ConsoleTable(last.a1)
            ELSE last.out = <<ConsoleTable(last.a1)>>

\* C10: a constructor, setTheme or setEnabled call on one instance leaves the
\* active theme and the enabled flag of every other instance, and the registry,
\* as they were.
C10_InstancesIndependent ==
  [][last'.op \in {"constructor", "setTheme", "setEnabled"} =>
       /\ \A j \in DOMAIN loggers : j # last'.self => loggers'[j] = loggers[j]
       /\ THEMES' = THEMES]_vars

\* A state C10 is about: the singleton was just switched off and given another
\* theme while the second instance keeps the theme and the flag it was built with.
C10_Witness ==
  /\ "other" \in DOMAIN loggers
  /\ last.op = "setEnabled" /\ last.self = "logger"
  /\ ~Truthy(loggers["logger"].enabled) /\ loggers["logger"].theme = PartialTheme
  /\ Truthy(loggers["other"].enabled) /\ loggers["other"].theme = MyTheme

\* C11: a semantic operation on an enabled instance writes one line, the text
\* formatted with the color and background of the active theme's StyleSpec for
\* the operation's category and with the caller's style override if it is truthy,
\* else the theme's own style; an absent or null field adds no escape sequence.
\* With the vibrant theme, success('OK') writes bright, bgBlack, green, 'OK',
\* reset.
C11_SemanticLine ==
  (last.op \in SemanticOps /\ Truthy(loggers[last.self].enabled)) =>
    LET spec == Property(loggers[last.self].theme, last.op)
        e == IF Truthy(last.a1) THEN last.a1 ELSE spec.style
    IN /\ ~last.threw
       /\ last.out = <<ConsoleLog(Styled(last.text, spec.color, spec.bgColor, e))>>
       /\ (/\ loggers[last.self].theme = VibrantTheme
           /\ last.op = "success" /\ last.text = <<"O", "K">> /\ ~Truthy(last.a1))
          => last.out = <<ConsoleLog(COLORS["bright"] \o COLORS["bgBlack"] \o COLORS["green"]
                                       \o <<"O", "K">> \o RESET)>>

\* C12: setTheme('custom', customTheme) with a theme object makes that object
\* the caller's active theme and leaves the registry as it was; setTheme('custom')
\* without an object, on any instance, activates what the registry holds under
\* 'custom', or the registry's default when nothing was registered under it.
C12_CustomNotRegistered ==
  [][(last'.op = "setTheme" /\ last'.a1 = Str("custom")) =>
       /\ THEMES' = THEMES
       /\ loggers'[last'.self].theme =
            IF last'.a2.t = "object" THEN last'.a2
            ELSE IF "custom" \in DOMAIN THEMES THEN THEMES["custom"]
            ELSE THEMES["default"]]_vars

\* A state C12 is about: the singleton activated the README's theme through
\* setTheme('custom', myTheme), nothing has been registered since, and the second
\* instance's setTheme('custom') has just given it the default theme.
C12_Witness ==
  /\ THEMES = BuiltinThemes
  /\ loggers["logger"].theme = MyTheme
  /\ "other" \in DOMAIN loggers
  /\ last.op = "setTheme" /\ last.self = "other"
  /\ last.a1 = Str("custom") /\ last.a2 = Undefined
  /\ loggers["other"].theme = DefaultTheme

\* C13: createTheme, also when it overwrites 'default' or the name an instance
\* activated, changes no instance's active theme or enabled flag; format,
\* formatPrompt, the semantic operations and table change neither the registry
\* nor any instance; and the line an instance writes right after a createTheme
\* is the one of the theme it resolved earlier.
C13_ThemeFixedUntilSetTheme ==
  [][/\ last'.op = "createTheme" => loggers' = loggers
     /\ last'.op \in SemanticOps \cup {"format", "formatPrompt", "table"} =>
          THEMES' = THEMES /\ loggers' = loggers
     /\ (last.op = "createTheme" /\ last'.op \in SemanticOps /\ ~last'.threw) =>
          last'.out = <<ConsoleLog(LineFor(last'.self, ThemeObjects[loggers[last'.self].theme.s],
                                             last'.op, last'.text, last'.a1))>>]_vars

\* A state C13 is about: 'default' has been overwritten with the vibrant theme
\* while the singleton still holds the built-in default theme it was built
\* with, and its info('OK') has just been written in that theme's info style.
C13_Witness ==
  /\ THEMES["default"] = VibrantTheme
  /\ loggers["logger"].theme = DefaultTheme
  /\ Truthy(loggers["logger"].enabled)
  /\ last.op = "info" /\ last.self = "logger" /\ last.text = <<"O", "K">>
  /\ ~Truthy(last.a1)
  /\ last.out = <<ConsoleLog(COLORS["cyan"] \o <<"O", "K">> \o RESET)>>

====
